---- MODULE Spec2Model ----
(***************************************************************************)
(* Model of quart_schema/validation.py: the three decorator factories      *)
(* validate_querystring, validate_request and validate_response, the      *)
(* function attributes they attach at decoration time, and the wrappers    *)
(* they put around a handler at request time.                              *)
(*                                                                         *)
(* Python values are records tagged by field t:                            *)
(*   [t |-> "none"]                    None                                *)
(*   [t |-> "int", i |-> n]            an int                              *)
(*   [t |-> "str", s |-> <<chars>>]    a str, as its sequence of chars     *)
(*   [t |-> "dict", d |-> f]           a dict with str keys                *)
(*   [t |-> "list"], [t |-> "Headers"] a list, a werkzeug Headers          *)
(*   [t |-> "tuple", e |-> <<vals>>]   a tuple                             *)
(*   [t |-> "inst", cls |-> c, f |-> fields]  an instance of model class c *)
(***************************************************************************)
EXTENDS Integers, Sequences, FiniteSets, TLC

VARIABLES phase, funcs, heap, layers, decoLog, req

vars == <<phase, funcs, heap, layers, decoLog, req>>

(* ------------------------------ bounds --------------------------------- *)

MaxDecorations == 2

MaxDecorationsConc == 2

NumRequests == 2

(* -------------------------- program constants -------------------------- *)

DefaultStatus == 200

ImplicitStatus == 200

TupleSlots == 3

(* ---------------------------- Python values ---------------------------- *)

None == [t |-> "none"]

PyInt(n) == [t |-> "int", i |-> n]

PyStr(chars) == [t |-> "str", s |-> chars]

PyDict(f) == [t |-> "dict", d |-> f]

PyTuple(elems) == [t |-> "tuple", e |-> elems]

PyList == [t |-> "list"]

HeadersValue == [t |-> "Headers"]

EmptyMap == [k \in {} |-> None]

Digits == <<"0", "1", "2", "3", "4", "5", "6", "7", "8", "9">>

IsDigit(c) == \E k \in 1..10 : Digits[k] = c

DigitVal(c) == (CHOOSE k \in 1..10 : Digits[k] = c) - 1

RECURSIVE DigitsToNat(_)
DigitsToNat(chars) ==
    IF chars = <<>> THEN 0
    ELSE 10 * DigitsToNat(SubSeq(chars, 1, Len(chars) - 1)) + DigitVal(chars[Len(chars)])

RECURSIVE NatToDigits(_)
NatToDigits(n) ==
    IF n < 10 THEN <<Digits[n + 1]>>
    ELSE Append(NatToDigits(n \div 10), Digits[(n % 10) + 1])

IsDecimal(chars) == chars # <<>> /\ \A k \in 1..Len(chars) : IsDigit(chars[k])

Ok(v) == [ok |-> TRUE, v |-> v]

Raise(e) == [ok |-> FALSE, exc |-> e]

(* int(x) for the values of this model: an int is itself, a str of decimal  *)
(* digits is parsed, any other str is a ValueError, any other value a      *)
(* TypeError.                                                               *)
IntOf(x) ==
    CASE x.t = "int" -> Ok(x.i)
      [] x.t = "str" -> IF IsDecimal(x.s) THEN Ok(DigitsToNat(x.s)) ELSE Raise("ValueError")
      [] OTHER -> Raise("TypeError")

(* ---------------------------- model classes ---------------------------- *)

Field(type, required) == [type |-> type, required |-> required]

ModelNames == {"UserModel", "SubUser", "ErrModel", "ItemDC", "QueryModel"}

ModelKind(m) == IF m = "ItemDC" THEN "dataclass" ELSE "BaseModel"

ModelFields(m) ==
    CASE m \in {"UserModel", "SubUser"} ->
            [k \in {"id", "name"} |-> IF k = "id" THEN Field("int", TRUE) ELSE Field("str", TRUE)]
      [] m = "ErrModel" -> [k \in {"msg"} |-> Field("str", TRUE)]
      [] m = "ItemDC" -> [k \in {"id"} |-> Field("int", TRUE)]
      [] m = "QueryModel" -> [k \in {"limit"} |-> Field("int", FALSE)]

RequiredFields(m) == {k \in DOMAIN ModelFields(m) : ModelFields(m)[k].required}

(* model_schema(model_class, ref_prefix=REF_PREFIX)                         *)
model_schema(m) ==
    [title |-> m, properties |-> DOMAIN ModelFields(m), required |-> RequiredFields(m)]

(* One field of the validation library: an int field takes an int or a     *)
(* decimal str, a str field takes a str or an int, None is taken only by a *)
(* field that is not required.                                              *)
CoerceField(fld, x) ==
    CASE x.t = "none" -> IF fld.required THEN Raise("ValidationError") ELSE Ok(None)
      [] fld.type = "int" /\ x.t = "int" -> Ok(x)
      [] fld.type = "int" /\ x.t = "str" ->
            IF IsDecimal(x.s) THEN Ok(PyInt(DigitsToNat(x.s))) ELSE Raise("ValidationError")
      [] fld.type = "str" /\ x.t = "str" -> Ok(x)
      [] fld.type = "str" /\ x.t = "int" -> Ok(PyStr(NatToDigits(x.i)))
      [] OTHER -> Raise("ValidationError")

FieldInput(m, d, k) ==
    IF k \in DOMAIN d THEN CoerceField(ModelFields(m)[k], d[k])
    ELSE IF ModelFields(m)[k].required THEN Raise("ValidationError") ELSE Ok(None)

Instance(m, f) == [t |-> "inst", cls |-> m, f |-> f]

(* Constructing model_class from the keywords of x: unpacking a           *)
(* non-mapping is a TypeError; a dataclass                                 *)
(* __init__ rejects an unexpected or a missing keyword with a TypeError;   *)
(* a BaseModel ignores unknown keys; field validation raises               *)
(* ValidationError.                                                         *)
Construct(m, x) ==
    IF x.t # "dict" THEN Raise("TypeError")
    ELSE IF ModelKind(m) = "dataclass"
            /\ ((\E k \in DOMAIN x.d : k \notin DOMAIN ModelFields(m))
                \/ (\E j \in RequiredFields(m) : j \notin DOMAIN x.d))
         THEN Raise("TypeError")
    ELSE IF \E k \in DOMAIN ModelFields(m) : ~FieldInput(m, x.d, k).ok
         THEN Raise("ValidationError")
    ELSE Ok(Instance(m, [k \in DOMAIN ModelFields(m) |-> FieldInput(m, x.d, k).v]))

(* asdict(model_value) / model_value.dict()                                 *)
ToDict(inst) == PyDict(inst.f)

(* ------------------------- decoration time ----------------------------- *)

NoAttr == [absent |-> TRUE]

NoAttrs == [qs |-> NoAttr, req |-> NoAttr, resp |-> 0]

Decorator(kind, m, status) == [kind |-> kind, model_class |-> m, status_code |-> status]

Closure(dec, ref) ==
    [kind |-> dec.kind, model_class |-> dec.model_class,
     status_code |-> dec.status_code, schemas |-> ref]

(* validate_response(model_class) without a status declares status 200     *)
ResponseDecorators ==
    {Decorator("response", "UserModel", DefaultStatus),
     Decorator("response", "ErrModel", 404),
     Decorator("response", "ItemDC", DefaultStatus),
     Decorator("response", "UserModel", 404)}

RequestDecorators ==
    {Decorator("request", "UserModel", 0), Decorator("request", "ItemDC", 0)}

QuerystringDecorators ==
    {Decorator("querystring", "QueryModel", 0), Decorator("querystring", "UserModel", 0)}

Decorators == ResponseDecorators \cup RequestDecorators \cup QuerystringDecorators

DecoratorsConc ==
    {Decorator("response", "UserModel", DefaultStatus),
     Decorator("response", "ErrModel", 404),
     Decorator("request", "UserModel", 0)}

(* Variant: the test on the required fields inverted.                       *)
HasRequiredInverted(schema) == Cardinality(schema.required) = 0

(* len(schema.get("required", [])) != 0                                     *)
HasRequired(schema) == Cardinality(schema.required) # 0

(* Variant: a registry holding only the entry just declared.                *)
RegistryStoreReset(reg, status_code, schema) == [s \in {status_code} |-> schema]

(* schemas[status_code] = schema                                            *)
RegistryStore(reg, status_code, schema) ==
    [s \in DOMAIN reg \cup {status_code} |-> IF s = status_code THEN schema ELSE reg[s]]

(* @wraps(func): the wrapper's __dict__ is updated from func's __dict__,   *)
(* so it holds the same attribute values (the same registry object).       *)
WrapsCopy(attrs) == attrs

Top == Len(funcs)

Wrap(attrs, closure) ==
    /\ funcs' = Append([funcs EXCEPT ![Top] = attrs], WrapsCopy(attrs))
    /\ layers' = Append(layers, closure)

DecorateQuerystring(dec, max) ==
    /\ phase = "decorating"
    /\ Len(decoLog) < max
    /\ dec.kind = "querystring"
    /\ LET schema == model_schema(dec.model_class) IN
         IF HasRequired(schema)
         THEN /\ decoLog' = Append(decoLog, [dec |-> dec, raised |-> "SchemaInvalidError"])
              /\ phase' = "failed"
              /\ UNCHANGED <<funcs, heap, layers, req>>
         ELSE /\ decoLog' = Append(decoLog, [dec |-> dec, raised |-> ""])
              /\ Wrap([funcs[Top] EXCEPT !.qs = schema], Closure(dec, 0))
              /\ UNCHANGED <<phase, heap, req>>

DecorateRequest(dec, max) ==
    /\ phase = "decorating"
    /\ Len(decoLog) < max
    /\ dec.kind = "request"
    /\ LET schema == model_schema(dec.model_class) IN
         /\ decoLog' = Append(decoLog, [dec |-> dec, raised |-> ""])
         /\ Wrap([funcs[Top] EXCEPT !.req = schema], Closure(dec, 0))
         /\ UNCHANGED <<phase, heap, req>>

DecorateResponse(dec, max) ==
    /\ phase = "decorating"
    /\ Len(decoLog) < max
    /\ dec.kind = "response"
    /\ LET schema == model_schema(dec.model_class)
           fresh == funcs[Top].resp = 0
           ref == IF fresh THEN Len(heap) + 1 ELSE funcs[Top].resp
           old == IF fresh THEN EmptyMap ELSE heap[ref]
           new == RegistryStore(old, dec.status_code, schema)
       IN
         /\ heap' = IF fresh THEN Append(heap, new) ELSE [heap EXCEPT ![ref] = new]
         /\ decoLog' = Append(decoLog, [dec |-> dec, raised |-> ""])
         /\ Wrap([funcs[Top] EXCEPT !.resp = ref], Closure(dec, ref))
         /\ UNCHANGED <<phase, req>>

(* The decorated handler is registered as a route: requests can arrive.    *)
StartServing ==
    /\ phase = "decorating"
    /\ phase' = "serving"
    /\ UNCHANGED <<funcs, heap, layers, decoLog, req>>

(* --------------------------- request time ------------------------------ *)

Requests == 1..NumRequests

NoReturn == [kind |-> "none"]

Returned(v) == [kind |-> "value", v |-> v]

Raised(e) == [kind |-> "exc", exc |-> e]

IdleRequest ==
    [pc |-> "idle", level |-> 0, args |-> <<>>, kwargs |-> EmptyMap,
     calls |-> 0, hres |-> None, ret |-> NoReturn, trace |-> <<>>]

(* The position after the wrapper at level k has returned or raised: the   *)
(* wrapper one level out resumes, or the call has left the outermost one.  *)
Leave(r, k, ret, event) ==
    req' = [req EXCEPT ![r].ret = ret,
                       ![r].level = k + 1,
                       ![r].pc = IF k + 1 > Len(layers) THEN "done" ELSE "up",
                       ![r].trace = IF event = <<>> THEN @ ELSE Append(@, event[1])]

(* The inputs of a call: positional arguments and keyword arguments (the   *)
(* route's view arguments).                                                 *)
CallInputs ==
    {[args |-> <<>>, kwargs |-> EmptyMap],
     [args |-> <<PyInt(7)>>, kwargs |-> [k \in {"id"} |-> PyInt(5)]],
     [args |-> <<>>, kwargs |-> [k \in {"data"} |-> PyStr(<<"x">>)]],
     [args |-> <<>>, kwargs |-> [k \in {"query_args"} |-> PyStr(<<"q">>)]]}

CallInputsConc == {[args |-> <<>>, kwargs |-> EmptyMap]}

(* request.args, a mapping of str to str                                    *)
QueryInputs ==
    {PyDict(EmptyMap),
     PyDict([k \in {"limit"} |-> PyStr(<<"5">>)]),
     PyDict([k \in {"limit"} |-> PyStr(<<"x">>)]),
     PyDict([k \in {"other"} |-> PyStr(<<"1">>)])}

UserDict == PyDict([k \in {"id", "name"} |-> IF k = "id" THEN PyInt(1) ELSE PyStr(<<"a">>)])

UserDictStr ==
    PyDict([k \in {"id", "name"} |-> IF k = "id" THEN PyStr(<<"1">>) ELSE PyStr(<<"a">>)])

BadUserDict ==
    PyDict([k \in {"id", "name"} |-> IF k = "id" THEN PyStr(<<"x">>) ELSE PyStr(<<"a">>)])

IdDict == PyDict([k \in {"id"} |-> PyInt(1)])

ErrDict == PyDict([k \in {"msg"} |-> PyStr(<<"n">>)])

(* await request.get_json(): None when there is no JSON body                *)
JsonInputs == {None, PyList, UserDict, BadUserDict, IdDict}

JsonInputsConc == {None, UserDict}

Arrive(r, inputs) ==
    /\ phase = "serving"
    /\ req[r].pc = "idle"
    /\ \E in \in inputs :
         req' = [req EXCEPT ![r].pc = "down", ![r].level = Len(layers),
                            ![r].args = in.args, ![r].kwargs = in.kwargs]
    /\ UNCHANGED <<phase, funcs, heap, layers, decoLog>>

(* Variant: an except clause naming ValidationError alone.                  *)
RequestCaughtValidationOnly(exc) == exc = "ValidationError"

(* except (TypeError, ValidationError): raise RequestSchemaValidationError() *)
RequestCaught(exc) == exc \in {"TypeError", "ValidationError"}

(* Variant: the call passes the model and drops the original keywords.      *)
CallWithKeywordOnly(kwargs, keyword, model) ==
    IF keyword \in DOMAIN kwargs THEN Raise("TypeError")
    ELSE Ok([k \in {keyword} |-> model])

(* func(...args, <keyword>=model, ...kwargs): a keyword given twice is a    *)
(* TypeError raised by the call itself, before func runs.                   *)
CallWithKeyword(kwargs, keyword, model) ==
    IF keyword \in DOMAIN kwargs THEN Raise("TypeError")
    ELSE Ok([k \in DOMAIN kwargs \cup {keyword} |-> IF k = keyword THEN model ELSE kwargs[k]])

(* The body of the querystring / request wrapper up to the await of func.  *)
(* go is "call" with the keywords func is called with, or "raise".          *)
InputWrapper(model_class, keyword, input, kwargs) ==
    LET cons == Construct(model_class, input) IN
      IF ~cons.ok
      THEN [go |-> "raise", built |-> FALSE,
            exc |-> IF RequestCaught(cons.exc) THEN "RequestSchemaValidationError" ELSE cons.exc]
      ELSE LET call == CallWithKeyword(kwargs, keyword, cons.v) IN
             IF call.ok THEN [go |-> "call", built |-> TRUE, kwargs |-> call.v, model |-> cons.v]
             ELSE [go |-> "raise", built |-> TRUE, exc |-> call.exc]

EnterInput(r, k, keyword, input) ==
    LET w == InputWrapper(layers[k].model_class, keyword, input, req[r].kwargs)
        event == [ev |-> "enter", level |-> k, kind |-> layers[k].kind, keyword |-> keyword,
                  input |-> input, args |-> req[r].args, kwargs |-> req[r].kwargs, w |-> w]
    IN IF w.go = "call"
       THEN req' = [req EXCEPT ![r].kwargs = w.kwargs, ![r].level = k - 1,
                               ![r].trace = Append(@, event)]
       ELSE Leave(r, k, Raised(w.exc), <<event>>)

EnterQuerystring(r, inputs) ==
    /\ req[r].pc = "down"
    /\ req[r].level > 0
    /\ layers[req[r].level].kind = "querystring"
    /\ \E input \in inputs : EnterInput(r, req[r].level, "query_args", input)
    /\ UNCHANGED <<phase, funcs, heap, layers, decoLog>>

EnterRequest(r, inputs) ==
    /\ req[r].pc = "down"
    /\ req[r].level > 0
    /\ layers[req[r].level].kind = "request"
    /\ \E input \in inputs : EnterInput(r, req[r].level, "data", input)
    /\ UNCHANGED <<phase, funcs, heap, layers, decoLog>>

(* result = await func(...): the response wrapper first calls func.         *)
EnterResponse(r) ==
    /\ req[r].pc = "down"
    /\ req[r].level > 0
    /\ layers[req[r].level].kind = "response"
    /\ LET event == [ev |-> "enter", level |-> req[r].level, kind |-> "response",
                     args |-> req[r].args, kwargs |-> req[r].kwargs]
       IN req' = [req EXCEPT ![r].level = @ - 1, ![r].trace = Append(@, event)]
    /\ UNCHANGED <<phase, funcs, heap, layers, decoLog>>

(* ----------------------------- the handler ----------------------------- *)

UserFields == [k \in {"id", "name"} |-> IF k = "id" THEN PyInt(1) ELSE PyStr(<<"a">>)]

Bodies ==
    {UserDict, UserDictStr, IdDict, ErrDict,
     Instance("UserModel", UserFields), Instance("SubUser", UserFields), PyStr(<<"t">>)}

SecondElements ==
    {None, PyInt(200), PyInt(404), PyInt(500), PyStr(<<"4", "0", "4">>), PyStr(<<"a", "b">>),
     HeadersValue, PyDict(EmptyMap), PyList, PyTuple(<<>>)}

HandlerResults ==
    Bodies
    \cup {PyTuple(<<b>>) : b \in Bodies}
    \cup {PyTuple(<<b, s>>) : b \in Bodies, s \in SecondElements}
    \cup {PyTuple(<<b, s, HeadersValue>>) : b \in Bodies, s \in {None, PyInt(404), HeadersValue}}
    \cup {PyTuple(<<>>), PyTuple(<<UserDict, PyInt(200), None, None>>)}

HandlerResultsConc ==
    {UserDict, PyTuple(<<ErrDict, PyInt(404)>>), PyTuple(<<IdDict, PyInt(200)>>)}

(* The innermost func: the handler runs with the arguments it is called    *)
(* with and returns a value.                                                *)
CallHandler(r, results) ==
    /\ req[r].pc = "down"
    /\ req[r].level = 0
    /\ \E res \in results :
         LET event == [ev |-> "handler", level |-> 0,
                       args |-> req[r].args, kwargs |-> req[r].kwargs, res |-> res]
         IN req' = [req EXCEPT ![r].calls = @ + 1,
                               ![r].hres = res,
                               ![r].ret = Returned(res),
                               ![r].level = 1,
                               ![r].pc = IF Len(layers) = 0 THEN "done" ELSE "up",
                               ![r].trace = Append(@, event)]
    /\ UNCHANGED <<phase, funcs, heap, layers, decoLog>>

(* ------------------------ the response wrapper ------------------------- *)

RECURSIVE Nones(_)
Nones(n) == IF n <= 0 THEN <<>> ELSE <<None>> \o Nones(n - 1)

(* value, status_or_headers, headers = result + (None,) x (3 - len(result)) *)
(* for a tuple, else value = result: unpacking more than three elements is *)
(* a ValueError.                                                            *)
Unpack(result) ==
    IF result.t = "tuple"
    THEN LET padded == result.e \o Nones(TupleSlots - Len(result.e)) IN
           IF Len(padded) # TupleSlots THEN Raise("ValueError")
           ELSE Ok([value |-> padded[1], status_or_headers |-> padded[2], headers |-> padded[3]])
    ELSE Ok([value |-> result, status_or_headers |-> None, headers |-> None])

(* Variant: a list is not taken as a headers value.                         *)
IsHeadersValueNoList(x) == x.t \in {"Headers", "dict"}

(* isinstance(status_or_headers, (Headers, dict, list))                     *)
IsHeadersValue(x) == x.t \in {"Headers", "dict", "list"}

(* status = 200, replaced by int(status_or_headers) when that element is   *)
(* not None and not a headers value                                         *)
EffectiveStatus(status_or_headers) ==
    IF status_or_headers # None /\ ~IsHeadersValue(status_or_headers)
    THEN IntOf(status_or_headers)
    ELSE Ok(ImplicitStatus)

(* status in schemas                                                        *)
Registered(status, schemas) == status \in DOMAIN schemas

(* except ValidationError: raise ResponseSchemaValidationError()            *)
ResponseCaught(exc) == exc = "ValidationError"

(* The validation branch: a dict is constructed into the model, an         *)
(* instance whose type is the model class is taken as it is, anything else *)
(* is a response-schema error.                                              *)
ValidateBody(model_class, value) ==
    IF value.t = "dict"
    THEN LET cons == Construct(model_class, value) IN
           IF cons.ok THEN cons
           ELSE IF ResponseCaught(cons.exc) THEN Raise("ResponseSchemaValidationError")
           ELSE Raise(cons.exc)
    ELSE IF value.t = "inst" /\ value.cls = model_class THEN Ok(value)
    ELSE Raise("ResponseSchemaValidationError")

(* Variant: the status and headers elements returned in swapped positions.  *)
ValidatedReturnSwapped(model_value, status_or_headers, headers) ==
    PyTuple(<<ToDict(model_value), headers, status_or_headers>>)

(* return asdict(model_value), status_or_headers, headers                   *)
ValidatedReturn(model_value, status_or_headers, headers) ==
    PyTuple(<<ToDict(model_value), status_or_headers, headers>>)

(* Variant: the unpacked triple returned in place of the result.            *)
UnvalidatedReturnPadded(result, unpacked) ==
    PyTuple(<<unpacked.value, unpacked.status_or_headers, unpacked.headers>>)

(* return result                                                            *)
UnvalidatedReturn(result, unpacked) == result

(* The response wrapper after func has returned result: what it computed   *)
(* (status, whether the status is registered, whether a model was          *)
(* constructed) and what leaves it (out).                                   *)
ResponseWrapper(closure, schemas, result) ==
    LET u == Unpack(result)
        st == IF u.ok THEN EffectiveStatus(u.v.status_or_headers) ELSE u
        registered == st.ok /\ Registered(st.v, schemas)
        val == IF registered THEN ValidateBody(closure.model_class, u.v.value) ELSE Raise("")
    IN [unpack |-> u, status |-> st, registered |-> registered,
        built |-> registered /\ u.v.value.t = "dict", val |-> val,
        out |-> IF ~u.ok THEN Raised(u.exc)
                ELSE IF ~st.ok THEN Raised(st.exc)
                ELSE IF ~registered THEN Returned(UnvalidatedReturn(result, u.v))
                ELSE IF ~val.ok THEN Raised(val.exc)
                ELSE Returned(ValidatedReturn(val.v, u.v.status_or_headers, u.v.headers))]

ExitResponse(r) ==
    /\ req[r].pc = "up"
    /\ layers[req[r].level].kind = "response"
    /\ req[r].ret.kind = "value"
    /\ LET k == req[r].level
           w == ResponseWrapper(layers[k], heap[layers[k].schemas], req[r].ret.v)
           event == [ev |-> "response", level |-> k, model_class |-> layers[k].model_class,
                     got |-> req[r].ret.v, w |-> w]
       IN Leave(r, k, w.out, <<event>>)
    /\ UNCHANGED <<phase, funcs, heap, layers, decoLog>>

(* return await func(...): the querystring and request wrappers return     *)
(* what func returned.                                                      *)
ExitInput(r) ==
    /\ req[r].pc = "up"
    /\ layers[req[r].level].kind \in {"querystring", "request"}
    /\ req[r].ret.kind = "value"
    /\ LET k == req[r].level
           event == [ev |-> "exit", level |-> k, got |-> req[r].ret.v, out |-> req[r].ret]
       IN Leave(r, k, req[r].ret, <<event>>)
    /\ UNCHANGED <<phase, funcs, heap, layers, decoLog>>

(* Variant: a response wrapper turns any exception of func into its own     *)
(* error.                                                                   *)
PropagateAsResponseError(r) ==
    /\ req[r].pc = "up"
    /\ req[r].ret.kind = "exc"
    /\ Leave(r, req[r].level,
             IF layers[req[r].level].kind = "response"
             THEN Raised("ResponseSchemaValidationError") ELSE req[r].ret, <<>>)
    /\ UNCHANGED <<phase, funcs, heap, layers, decoLog>>

(* An exception raised by func leaves the wrapper awaiting it: no wrapper  *)
(* has an except clause around the await of func.                           *)
Propagate(r) ==
    /\ req[r].pc = "up"
    /\ req[r].ret.kind = "exc"
    /\ Leave(r, req[r].level, req[r].ret, <<>>)
    /\ UNCHANGED <<phase, funcs, heap, layers, decoLog>>

(* --------------------------- specifications ---------------------------- *)

Init ==
    /\ phase = "decorating"
    /\ funcs = <<NoAttrs>>
    /\ heap = <<>>
    /\ layers = <<>>
    /\ decoLog = <<>>
    /\ req = [r \in Requests |-> IdleRequest]

Next ==
    \/ \E dec \in Decorators : DecorateQuerystring(dec, MaxDecorations)
    \/ \E dec \in Decorators : DecorateRequest(dec, MaxDecorations)
    \/ \E dec \in Decorators : DecorateResponse(dec, MaxDecorations)
    \/ StartServing
    \/ Arrive(1, CallInputs)
    \/ EnterQuerystring(1, QueryInputs)
    \/ EnterRequest(1, JsonInputs)
    \/ EnterResponse(1)
    \/ CallHandler(1, HandlerResults)
    \/ ExitResponse(1)
    \/ ExitInput(1)
    \/ Propagate(1)

Spec == Init /\ [][Next]_vars

(* Requests handled concurrently: every await is a point where another     *)
(* request's steps may run.                                                 *)
NextConc ==
    \/ \E dec \in DecoratorsConc : DecorateRequest(dec, MaxDecorationsConc)
    \/ \E dec \in DecoratorsConc : DecorateResponse(dec, MaxDecorationsConc)
    \/ StartServing
    \/ \E r \in Requests :
         \/ Arrive(r, CallInputsConc)
         \/ EnterRequest(r, JsonInputsConc)
         \/ EnterResponse(r)
         \/ CallHandler(r, HandlerResultsConc)
         \/ ExitResponse(r)
         \/ ExitInput(r)
         \/ Propagate(r)

SpecConc == Init /\ [][NextConc]_vars

(* ------------------------------ properties ---------------------------- *)

Trace(r) == req[r].trace

Events(r) == 1..Len(Trace(r))

ResponseEvents(r) == {j \in Events(r) : Trace(r)[j].ev = "response"}

InputEvents(r) ==
    {j \in Events(r) : Trace(r)[j].ev = "enter" /\ Trace(r)[j].kind \in {"querystring", "request"}}

(* The entries into the function at level k: a wrapper's body starting, or *)
(* the handler running.                                                     *)
Entries(r, k) ==
    {j \in Events(r) : Trace(r)[j].ev \in {"enter", "handler"} /\ Trace(r)[j].level = k}

ResponseLayers == {k \in 1..Len(layers) : layers[k].kind = "response"}

(* The registry readable on the decorated handler.                          *)
Registry == IF funcs[Top].resp = 0 THEN EmptyMap ELSE heap[funcs[Top].resp]

(* The i-th element of a handler result in the (body, status_or_headers,   *)
(* headers) convention, None when absent.                                   *)
Element(result, i) ==
    IF result.t = "tuple"
    THEN IF Len(result.e) >= i THEN result.e[i] ELSE None
    ELSE IF i = 1 THEN result ELSE None

WellShaped(result) == result.t = "tuple" => Len(result.e) <= 3

(* The model construction succeeds on x, as the validation library decides. *)
Matches(m, x) ==
    \/ x.t = "inst" /\ x.cls = m
    \/ x.t = "dict" /\ Construct(m, x).ok

(* The effective status as the wrapper's contract states it: 200 unless    *)
(* the second element is present, is not None and is not a Headers, dict   *)
(* or list; then int() of that element, which may raise.                    *)
StatusRule(result) ==
    LET second == Element(result, 2) IN
      IF second.t \in {"none", "Headers", "dict", "list"} THEN Ok(200) ELSE IntOf(second)

(* Two validate_response decorators for two different status codes with   *)
(* different model classes, stacked on the handler in either order.         *)
TwoStatusStack ==
    /\ Len(layers) = 2
    /\ ResponseLayers = {1, 2}
    /\ layers[1].status_code # layers[2].status_code
    /\ layers[1].model_class # layers[2].model_class

(* C1: with response decorators for two different status codes and         *)
(* different model classes stacked on a handler, a handler result whose     *)
(* effective status is s and whose body matches the model declared for s is *)
(* validated only against that model, and passes through the whole stack    *)
(* without an exception.                                                    *)
C1_StatusRouting ==
    \A r \in Requests :
      (TwoStatusStack /\ req[r].calls = 1 /\ WellShaped(req[r].hres)) =>
        LET st == StatusRule(req[r].hres) IN
          \A k \in ResponseLayers :
            (st.ok /\ layers[k].status_code = st.v
                /\ Matches(layers[k].model_class, Element(req[r].hres, 1))) =>
              /\ \A j \in ResponseEvents(r) :
                   Trace(r)[j].w.registered => Trace(r)[j].model_class = layers[k].model_class
              /\ req[r].ret.kind # "exc"

(* C3: whenever the effective status has a registered schema and the body  *)
(* does not validate against the wrapper's model, the response wrapper      *)
(* raises ResponseSchemaValidationError and nothing else.                   *)
C3_ResponseErrorType ==
    \A r \in Requests : \A j \in ResponseEvents(r) :
      LET e == Trace(r)[j] IN
        (e.w.registered /\ ~Matches(e.model_class, Element(e.got, 1))) =>
          e.w.out = Raised("ResponseSchemaValidationError")

C1_Reached ==
    \E r \in Requests :
      /\ TwoStatusStack
      /\ req[r].pc = "done"
      /\ req[r].hres = PyTuple(<<ErrDict, PyInt(404)>>)
      /\ req[r].ret = Raised("ResponseSchemaValidationError")

(* C2: when the effective status of the handler's result is not a key of   *)
(* the registry, every response wrapper in the stack returns the handler's *)
(* original result unchanged and constructs no model.                       *)
C2_UnregisteredUnchanged ==
    \A r \in Requests : \A j \in ResponseEvents(r) :
      LET e == Trace(r)[j]
          st == StatusRule(req[r].hres)
      IN (WellShaped(req[r].hres) /\ st.ok /\ st.v \notin DOMAIN Registry) =>
           /\ e.got = req[r].hres
           /\ e.w.out = Returned(req[r].hres)
           /\ ~e.w.built
           /\ ~e.w.val.ok

C2_Witness ==
    \E r \in Requests :
      /\ req[r].pc = "done"
      /\ ResponseLayers = {1, 2}
      /\ Cardinality(ResponseEvents(r)) = 2
      /\ req[r].hres = UserDict
      /\ DOMAIN Registry = {404}
      /\ req[r].ret = Returned(UserDict)

(* C4: in every call of the querystring or request wrapper where the model *)
(* cannot be constructed from the incoming data, the wrapper raises         *)
(* RequestSchemaValidationError and the function it wraps is not entered.   *)
C4_BadInputRejected ==
    \A r \in Requests : \A j \in InputEvents(r) :
      LET e == Trace(r)[j] IN
        ~Matches(layers[e.level].model_class, e.input) =>
          /\ e.w.go = "raise"
          /\ e.w.exc = "RequestSchemaValidationError"
          /\ Entries(r, e.level - 1) = {}
          /\ req[r].calls = 0
          /\ req[r].ret = Raised("RequestSchemaValidationError")

C4_Witness ==
    \E r \in Requests :
      /\ req[r].pc = "done"
      /\ Len(layers) = 2
      /\ layers[1].kind = "request"
      /\ layers[2].kind = "querystring"
      /\ \E j \in InputEvents(r) : Trace(r)[j].kind = "request" /\ Trace(r)[j].input = None
      /\ \E j \in InputEvents(r) : Trace(r)[j].kind = "querystring" /\ Trace(r)[j].w.go = "call"
      /\ req[r].calls = 0
      /\ req[r].ret = Raised("RequestSchemaValidationError")

(* C5: validate_querystring raises SchemaInvalidError at decoration time   *)
(* exactly when the model has a required field; when it raises, no wrapper *)
(* is created and no querystring schema is attached, and no request ever    *)
(* sees SchemaInvalidError.                                                 *)
C5_RequiredFieldsRejected ==
    /\ \A i \in 1..Len(decoLog) :
         LET d == decoLog[i] IN
           /\ (d.raised = "SchemaInvalidError") <=>
                (d.dec.kind = "querystring" /\ RequiredFields(d.dec.model_class) # {})
           /\ d.raised # "" =>
                /\ i = Len(decoLog)
                /\ phase = "failed"
                /\ Len(layers) = i - 1
                /\ Len(funcs) = i
                /\ \A f \in 1..Len(funcs) :
                     funcs[f].qs # [title |-> d.dec.model_class,
                                    properties |-> DOMAIN ModelFields(d.dec.model_class),
                                    required |-> RequiredFields(d.dec.model_class)]
           /\ (d.raised = "" /\ d.dec.kind = "querystring") =>
                /\ Len(layers) >= i
                /\ layers[i].kind = "querystring"
                /\ funcs[i].qs.title = d.dec.model_class
    /\ \A r \in Requests :
         /\ phase = "failed" => req[r].pc = "idle"
         /\ req[r].ret.kind = "exc" => req[r].ret.exc # "SchemaInvalidError"

C5_Witness ==
    /\ phase = "failed"
    /\ Len(decoLog) = 2
    /\ decoLog[1] = [dec |-> Decorator("querystring", "QueryModel", 0), raised |-> ""]
    /\ decoLog[2] = [dec |-> Decorator("querystring", "UserModel", 0),
                     raised |-> "SchemaInvalidError"]
    /\ Len(layers) = 1

(* What the function entered or resumed at an event handed back.            *)
OutOf(e) ==
    CASE e.ev = "handler" -> Returned(e.res)
      [] e.ev = "response" -> e.w.out
      [] e.ev = "exit" -> e.out

(* The wrapper entered at event j called the function it wraps exactly     *)
(* once, with the original arguments plus the validated model under the    *)
(* wrapper's keyword, and returned what that function returned.             *)
CalledOnceWithModel(r, j) ==
    LET e == Trace(r)[j]
        model == Construct(layers[e.level].model_class, e.input).v
        expected == [x \in DOMAIN e.kwargs \cup {e.keyword} |->
                        IF x = e.keyword THEN model ELSE e.kwargs[x]]
    IN /\ e.w.go = "call"
       /\ model.t = "inst"
       /\ model.cls = layers[e.level].model_class
       /\ IF j = Len(Trace(r))
          THEN /\ Entries(r, e.level - 1) = {}
               /\ req[r].pc = "down"
               /\ req[r].level = e.level - 1
               /\ req[r].args = e.args
               /\ req[r].kwargs = expected
          ELSE /\ Entries(r, e.level - 1) = {j + 1}
               /\ Trace(r)[j + 1].args = e.args
               /\ Trace(r)[j + 1].kwargs = expected
       /\ \A i \in Events(r) :
            (Trace(r)[i].ev = "exit" /\ Trace(r)[i].level = e.level) =>
              /\ i > j + 1
              /\ Trace(r)[i].out = OutOf(Trace(r)[i - 1])

(* C6 as stated: in every call where model construction succeeds the       *)
(* wrapped function is invoked exactly once with the model under the        *)
(* keyword and all original arguments, and its return value is returned.    *)
C6_Original ==
    \A r \in Requests : \A j \in InputEvents(r) :
      Matches(layers[Trace(r)[j].level].model_class, Trace(r)[j].input) =>
        CalledOnceWithModel(r, j)

(* C6 amended: the same when the call's keyword arguments do not already   *)
(* hold the wrapper's keyword; when they do, the call raises TypeError and *)
(* the wrapped function is not entered.                                     *)
C6_CalledOnceUnlessKeywordTaken ==
    \A r \in Requests : \A j \in InputEvents(r) :
      LET e == Trace(r)[j] IN
        Matches(layers[e.level].model_class, e.input) =>
          IF e.keyword \in DOMAIN e.kwargs
          THEN /\ e.w.go = "raise"
               /\ e.w.exc = "TypeError"
               /\ Entries(r, e.level - 1) = {}
               /\ req[r].ret = Raised("TypeError")
          ELSE CalledOnceWithModel(r, j)

C6_Witness ==
    \E r \in Requests :
      /\ req[r].pc = "done"
      /\ Len(layers) = 2
      /\ layers[1].kind = "request"
      /\ layers[2].kind = "querystring"
      /\ req[r].calls = 1
      /\ Len(Trace(r)) = 5
      /\ Trace(r)[3].ev = "handler"
      /\ Trace(r)[3].args = <<PyInt(7)>>
      /\ DOMAIN Trace(r)[3].kwargs = {"id", "data", "query_args"}
      /\ Trace(r)[3].kwargs["data"] = Instance("UserModel", UserFields)
      /\ req[r].ret = Returned(req[r].hres)

(* C7: when the effective status is registered and the body validates, the *)
(* response wrapper returns the validated model as a plain dict together    *)
(* with the handler's original status_or_headers and headers elements, in   *)
(* their positions.                                                         *)
C7_ValidatedShape ==
    \A r \in Requests : \A j \in ResponseEvents(r) :
      LET e == Trace(r)[j]
          st == StatusRule(e.got)
          body == Element(e.got, 1)
      IN (WellShaped(e.got) /\ st.ok /\ st.v \in DOMAIN Registry
             /\ Matches(e.model_class, body)) =>
           LET fields == IF body.t = "inst" THEN body.f
                         ELSE Construct(e.model_class, body).v.f
           IN e.w.out = Returned([t |-> "tuple",
                                  e |-> <<[t |-> "dict", d |-> fields],
                                          Element(req[r].hres, 2),
                                          Element(req[r].hres, 3)>>])

C7_Witness ==
    \E r \in Requests :
      /\ req[r].pc = "done"
      /\ Len(layers) = 1
      /\ layers[1] = Closure(Decorator("response", "UserModel", 200), 1)
      /\ req[r].hres = UserDict
      /\ req[r].ret = Returned(PyTuple(<<UserDict, None, None>>))

(* C8 as stated: the effective status is 200 for a non-tuple, a tuple      *)
(* without second element, or a headers, mapping or sequence second        *)
(* element, else the second element as a number, and computing it never     *)
(* raises.                                                                  *)
C8_Original ==
    \A r \in Requests : \A j \in ResponseEvents(r) :
      LET e == Trace(r)[j]
          second == Element(e.got, 2)
          implicit == \/ e.got.t # "tuple"
                      \/ Len(e.got.e) < 2
                      \/ second.t \in {"Headers", "dict", "list", "tuple"}
      IN WellShaped(e.got) =>
           /\ e.w.status.ok
           /\ implicit => e.w.status.v = 200
           /\ (~implicit /\ IntOf(second).ok) => e.w.status.v = IntOf(second).v

(* C8 amended: the effective status is 200 for a non-tuple, a tuple whose  *)
(* second element is absent or None, or a Headers, dict or list second     *)
(* element; else it is int() of the second element, and the computation     *)
(* raises when int() rejects that element or when the tuple has more than  *)
(* three elements.                                                          *)
C8_StatusOrRaise ==
    \A r \in Requests : \A j \in ResponseEvents(r) :
      LET e == Trace(r)[j] IN
        IF WellShaped(e.got)
        THEN /\ e.w.status = StatusRule(e.got)
             /\ ~e.w.status.ok => e.w.out = Raised(e.w.status.exc)
        ELSE /\ e.w.status = Raise("ValueError")
             /\ e.w.out = Raised("ValueError")

C8_Witness ==
    \E r \in Requests :
      /\ req[r].pc = "done"
      /\ req[r].hres = PyTuple(<<UserDict, PyStr(<<"a", "b">>)>>)
      /\ ResponseEvents(r) # {}
      /\ req[r].ret = Raised("ValueError")

(* The status codes and schemas declared by the applied decorators.         *)
Declared == {i \in 1..Len(decoLog) : decoLog[i].dec.kind = "response" /\ decoLog[i].raised = ""}

(* C9: once decoration is complete, the registry readable on the decorated *)
(* handler maps exactly the declared status codes, each to the schema of a *)
(* model declared for it, whatever steps the requests in flight have taken. *)
C9_RegistryStable ==
    phase = "serving" =>
      /\ DOMAIN Registry = {decoLog[i].dec.status_code : i \in Declared}
      /\ \A s \in DOMAIN Registry :
           \E i \in Declared :
             /\ decoLog[i].dec.status_code = s
             /\ Registry[s] = [title |-> decoLog[i].dec.model_class,
                               properties |-> DOMAIN ModelFields(decoLog[i].dec.model_class),
                               required |-> RequiredFields(decoLog[i].dec.model_class)]

C9_Witness ==
    /\ phase = "serving"
    /\ DOMAIN Registry = {200, 404}
    /\ req[1].pc = "done"
    /\ req[1].ret.kind = "exc"
    /\ req[2].pc = "up"

(* C10: with a response wrapper around a request or querystring wrapper, a *)
(* call whose input fails validation never runs the handler, runs no part   *)
(* of the response wrapper's validation, and leaves the stack with          *)
(* RequestSchemaValidationError; response validation only ever follows the *)
(* handler's return.                                                        *)
C10_ShortCircuit ==
    \A r \in Requests :
      /\ \A j \in InputEvents(r) :
           LET e == Trace(r)[j] IN
             (~Matches(layers[e.level].model_class, e.input)
                 /\ \E k \in ResponseLayers : k > e.level) =>
               /\ req[r].calls = 0
               /\ ResponseEvents(r) = {}
               /\ req[r].pc \in {"up", "done"}
               /\ req[r].ret = Raised("RequestSchemaValidationError")
      /\ \A j \in ResponseEvents(r) :
           \E i \in 1..(j - 1) : Trace(r)[i].ev = "handler"

C10_Witness ==
    \E r \in Requests :
      /\ req[r].pc = "done"
      /\ Len(layers) = 2
      /\ layers[1].kind = "request"
      /\ layers[2].kind = "response"
      /\ Len(Trace(r)) = 2
      /\ Trace(r)[2].input = BadUserDict
      /\ req[r].calls = 0
      /\ req[r].ret = Raised("RequestSchemaValidationError")

====
